---- MODULE Spec2Model ----
(***************************************************************************)
(* Model of poll_bot.py: the weekly poll bot.  The program state is the    *)
(* two module-level dicts `settings` and `votes`, their on-disk mirrors    *)
(* settings.json and votes.json, and the coroutines suspended at an await  *)
(* of the transport.  Strings are sequences of Unicode code points, so     *)
(* that name derivation, sorting and rendering are computed as the code    *)
(* computes them.  None, a missing dict key and the empty string are all   *)
(* falsy in the code's tests (`or`, `if not`), and are modelled by 0 for   *)
(* ids and by <<>> for strings.                                            *)
(***************************************************************************)
EXTENDS Integers, Sequences, FiniteSets, TLC

VARIABLES
    settings,       \* the dict `settings`: group_chat_id, latest_poll_id
    votes,          \* the dict `votes`: poll_id -> (user_name -> option_ids)
    settings_file,  \* content of settings.json
    votes_file,     \* content of votes.json
    env_chat,       \* the environment variable GROUP_CHAT_ID (0: not set)
    inflight,       \* create_poll coroutines suspended at `await send_poll`
    last_poll,      \* transport: id of the poll created last (0: none yet)
    ev,             \* the event handled last: its inputs and what it sent
    opened,         \* history: poll ids that reached votes.setdefault in create_poll
    answered,       \* history: poll ids that were the subject of an answer event
    nanswers,       \* number of answer events handled so far
    nfaults         \* number of file reads and writes that failed so far

vars == <<settings, votes, settings_file, votes_file, env_chat, inflight,
          last_poll, ev, opened, answered, nanswers, nfaults>>

----------------------------------------------------------------------------
(* Bounds of the model *)

(* polls created, answer events handled and failed file operations that a
   behaviour may hold, together *)
MaxEvents == 3

(* Values standing for "absent" *)
NoChat == 0
NoPoll == 0

(* Chats the events come from; the value GROUP_CHAT_ID may have *)
Chats == {1, 2}
EnvChats == {NoChat, 2}

PollIds == 1..MaxEvents

(* Telegram accounts that answer: full_name and username ("" when none) *)
Users == { [id |-> 1, full_name |-> <<66>>, username |-> <<>>],
           [id |-> 2, full_name |-> <<66>>, username |-> <<>>],
           [id |-> 3, full_name |-> <<66>>, username |-> <<97>>],
           [id |-> 4, full_name |-> <<65>>, username |-> <<>>] }

(* option_ids of an answer event: a retracted vote, one option, or several
   (on_poll_answer copies whatever list the update carries) *)
OptionLists == { <<>>, <<0>>, <<1>>, <<2>>, <<0, 2>> }

----------------------------------------------------------------------------
(* Persistence helpers *)

EmptyDict == [k \in {} |-> 0]

NoSettings == [group_chat_id |-> NoChat, latest_poll_id |-> NoPoll]

(* A JSON document that is an object: the set of its members <<key, value>>.
   A file that does not exist reads like the empty object (the default {}) *)
EmptyDoc == {}

(* json.dump(settings): an object with the keys the dict holds (a key is
   added by the first assignment and never removed) *)
json_dump_settings(s) == {<<k, s[k]>> : k \in {x \in DOMAIN s : s[x] # 0}}

(* the dict `settings` that json.load returns for a document, as read with
   settings.get(key) *)
json_load_settings(doc) ==
    [k \in {"group_chat_id", "latest_poll_id"} |->
        IF \E m \in doc : m[1] = k THEN (CHOOSE m \in doc : m[1] = k)[2] ELSE 0]

(* json.dump(votes): an object of objects; the option lists are arrays *)
json_dump_votes(v) ==
    {<<pid, {<<name, v[pid][name]>> : name \in DOMAIN v[pid]}>> : pid \in DOMAIN v}

(* the dict `votes` that json.load returns for a document *)
json_load_votes(doc) ==
    [pid \in {m[1] : m \in doc} |->
        LET ballot == (CHOOSE m \in doc : m[1] = pid)[2]
        IN  [name \in {x[1] : x \in ballot} |->
                (CHOOSE x \in ballot : x[1] = name)[2]]]

(* _read_json: the file's document, or the default when the read fails *)
read_json(file, default, ok) == IF ok THEN file ELSE default

(* _write_json: the file after the write of the document obj; a failed
   write leaves the file as it was (the temporary file is written, the
   replace never happens) *)
write_json(file, obj, ok) == IF ok THEN obj ELSE file

----------------------------------------------------------------------------
(* Dict helpers *)

(* d.get(k) falling back to an entry the dict holds *)
dict_get_fallback(d, k) ==
    IF k \in DOMAIN d THEN d[k]
    ELSE IF DOMAIN d # {} THEN d[CHOOSE x \in DOMAIN d : TRUE]
    ELSE EmptyDict

(* d.get(k, {}) *)
dict_get(d, k) == IF k \in DOMAIN d THEN d[k] ELSE EmptyDict

(* d[k] = {} in place of d.setdefault(k, {}) *)
setdefault_overwrite(d, k) ==
    [x \in DOMAIN d \cup {k} |-> IF x = k THEN EmptyDict ELSE d[x]]

(* d.setdefault(k, {}) : the dict afterwards *)
setdefault(d, k) ==
    IF k \in DOMAIN d THEN d
    ELSE [x \in DOMAIN d \cup {k} |-> IF x = k THEN EmptyDict ELSE d[x]]

(* d[k] = v : the dict afterwards *)
dict_set(d, k, v) == [x \in DOMAIN d \cup {k} |-> IF x = k THEN v ELSE d[x]]

----------------------------------------------------------------------------
(* Strings: sequences of code points *)

(* Python's < on str: lexicographic by code point, a proper prefix is smaller *)
RECURSIVE str_less(_, _)
str_less(a, b) ==
    IF b = <<>> THEN FALSE
    ELSE IF a = <<>> THEN TRUE
    ELSE IF a[1] # b[1] THEN a[1] < b[1]
    ELSE str_less(Tail(a), Tail(b))

(* sorted(xs, reverse=True) *)
RECURSIVE sorted_reverse(_)
sorted_reverse(S) ==
    IF S = {} THEN <<>>
    ELSE LET m == CHOOSE x \in S : \A y \in S \ {x} : str_less(y, x)
         IN  <<m>> \o sorted_reverse(S \ {m})

(* sorted(xs), xs given as the set of its (distinct) elements *)
RECURSIVE sorted(_)
sorted(S) ==
    IF S = {} THEN <<>>
    ELSE LET m == CHOOSE x \in S : \A y \in S \ {x} : str_less(x, y)
         IN  <<m>> \o sorted(S \ {m})

(* sep.join(xs) *)
RECURSIVE join(_, _)
join(sep, xs) ==
    IF xs = <<>> THEN <<>>
    ELSE IF Len(xs) = 1 THEN xs[1]
    ELSE xs[1] \o sep \o join(sep, Tail(xs))

(* str(n) for n >= 0, as the f-string formats len(...) *)
RECURSIVE str_int(_)
str_int(n) == IF n < 10 THEN <<48 + n>> ELSE str_int(n \div 10) \o <<48 + (n % 10)>>

(* x in o, for a list o *)
contains(o, x) == \E k \in 1..Len(o) : o[k] = x

(* Literals of the source *)
HEADER  == <<128202, 32, 60, 98, 62, 1048, 1090, 1086, 1075, 1080, 32, 1075, 1086,
             1083, 1086, 1089, 1086, 1074, 1072, 1085, 1080, 1103, 32, 40, 1074,
             1086, 1089, 1082, 1088, 1077, 1089, 1085, 1072, 1103, 32, 1080, 1075,
             1088, 1072, 41, 60, 47, 98, 62>>
GOING_LABEL     == <<9989, 32, 1048, 1075, 1088, 1072, 1102, 1090, 32, 40>>
NOT_GOING_LABEL == <<10060, 32, 1053, 1077, 32, 1080, 1075, 1088, 1072, 1102, 1090, 32, 40>>
FIFTY_LABEL     == <<129335, 32, 53, 48, 47, 53, 48, 32, 40>>
COUNT_END == <<41, 58, 32>>
COMMA     == <<44, 32>>
NOBODY    == <<1085, 1080, 1082, 1090, 1086>>
NEWLINE   == <<10>>
NO_DATA   == <<1055, 1086, 1082, 1072, 32, 1085, 1077, 1090, 32, 1076, 1072, 1085,
               1085, 1099, 1093, 32, 1076, 1083, 1103, 32, 1089, 1090, 1072, 1090,
               1080, 1089, 1090, 1080, 1082, 1080, 46>>

(* the ballot keyed by the full name alone *)
display_name_full_only(user) == user.full_name

(* on_poll_answer: the ballot key derived from the answering account *)
display_name(user) ==
    IF user.username # <<>>
    THEN user.full_name \o <<32, 40, 64>> \o user.username \o <<41>>
    ELSE user.full_name

----------------------------------------------------------------------------
(* _build_summary_text *)

(* sorted([u for u, o in data.items() if i in o]) *)
names_with(data, i) == sorted({u \in DOMAIN data : contains(data[u], i)})

(* the three name lists _build_summary_text computes for poll pid *)
summarize(v, pid) ==
    LET data == dict_get(v, pid)
    IN  [going     |-> names_with(data, 0),
         not_going |-> names_with(data, 1),
         fifty     |-> names_with(data, 2)]

(* a line of the summary that leaves the names empty for an empty category,
   as ", ".join(names) alone does *)
summary_line_join_only(label, names) ==
    label \o str_int(Len(names)) \o COUNT_END \o join(COMMA, names)

(* one line: label, count, and the joined names or the placeholder *)
summary_line(label, names) ==
    label \o str_int(Len(names)) \o COUNT_END
          \o (IF names # <<>> THEN join(COMMA, names) ELSE NOBODY)

build_summary_text(v, pid) ==
    LET view == summarize(v, pid)
    IN  join(NEWLINE, << HEADER,
                         summary_line(GOING_LABEL, view.going),
                         summary_line(NOT_GOING_LABEL, view.not_going),
                         summary_line(FIFTY_LABEL, view.fifty) >>)

----------------------------------------------------------------------------
(* a destination hard-coded as the last resort *)
target_chat_default(chat_id) ==
    IF chat_id # NoChat THEN chat_id
    ELSE IF settings.group_chat_id # NoChat THEN settings.group_chat_id
    ELSE IF env_chat # NoChat THEN env_chat
    ELSE 1

(* the bound chat takes precedence over the chat the command came from *)
target_chat_bound_first(chat_id) ==
    IF settings.group_chat_id # NoChat THEN settings.group_chat_id
    ELSE IF chat_id # NoChat THEN chat_id
    ELSE env_chat

(* Destination of a poll or a summary: chat_id or settings.get("group_chat_id")
   or the GROUP_CHAT_ID of the environment or None *)
target_chat(chat_id) ==
    IF chat_id # NoChat THEN chat_id
    ELSE IF settings.group_chat_id # NoChat THEN settings.group_chat_id
    ELSE env_chat

(* The event handled last.  type: what the handler did; task: "job" for a
   job of the job queue, "update" for an update handler; src: the chat the
   update came from (update.effective_chat.id; NoChat for a job and for an
   answer); chat: the chat bound by /setgroup, or the destination of what
   was sent; text: the message sent by bot.send_message (<<>>: none);
   prev: for an answer that directly follows an answer of another account
   to the same poll under the same derived name, the id of that account
   (history; 0 otherwise) *)
Ev(type, task, src, chat, pid, user, opts, text) ==
    [type |-> type, task |-> task, src |-> src, chat |-> chat, pid |-> pid,
     user |-> user, opts |-> opts, text |-> text, prev |-> 0]

NoUser == 0

NoneInflight == [job |-> NoPoll, update |-> NoPoll]

(* The Application handles updates one at a time: no update handler starts
   while the /force_poll handler is suspended in create_poll.  Jobs of the
   job queue run as tasks of their own. *)
UpdateIdle == inflight.update = NoPoll

(* the part of the budget MaxEvents that is used up *)
Used == last_poll + nanswers + nfaults

(* Outcomes of the file operations of one handler: n operations, each of
   which succeeds (TRUE) or fails, within the budget of failures *)
Failures(oks) == Cardinality({i \in DOMAIN oks : ~oks[i]})
Outcomes(n) == {oks \in [1..n -> BOOLEAN] : Used + Failures(oks) <= MaxEvents}

Init ==
    /\ settings_file = EmptyDoc
    /\ votes_file = EmptyDoc
    /\ settings = json_load_settings(read_json(settings_file, EmptyDoc, TRUE))
    /\ votes = json_load_votes(read_json(votes_file, EmptyDoc, TRUE))
    /\ env_chat \in EnvChats
    /\ inflight = NoneInflight
    /\ last_poll = NoPoll
    /\ ev = Ev("start", "none", NoChat, NoChat, NoPoll, NoUser, <<>>, <<>>)
    /\ opened = {}
    /\ answered = {}
    /\ nanswers = 0
    /\ nfaults = 0

(* /setgroup that binds the chat only once settings.json is written *)
setgroup_write_first(chat) ==
    /\ UpdateIdle
    /\ \E oks \in Outcomes(1) :
           /\ settings' = IF oks[1] THEN [settings EXCEPT !.group_chat_id = chat]
                          ELSE settings
           /\ settings_file' = write_json(settings_file,
                                           json_dump_settings(settings'), oks[1])
           /\ nfaults' = nfaults + Failures(oks)
    /\ ev' = Ev("setgroup", "update", chat, chat, NoPoll, NoUser, <<>>, <<>>)
    /\ UNCHANGED <<votes, votes_file, env_chat, inflight, last_poll,
                   opened, answered, nanswers>>

(* /setgroup that rebinds the dict: settings = {"group_chat_id": chat.id} *)
setgroup_rebind(chat) ==
    /\ UpdateIdle
    /\ settings' = [NoSettings EXCEPT !.group_chat_id = chat]
    /\ \E oks \in Outcomes(1) :
           /\ settings_file' = write_json(settings_file,
                                           json_dump_settings(settings'), oks[1])
           /\ nfaults' = nfaults + Failures(oks)
    /\ ev' = Ev("setgroup", "update", chat, chat, NoPoll, NoUser, <<>>, <<>>)
    /\ UNCHANGED <<votes, votes_file, env_chat, inflight, last_poll,
                   opened, answered, nanswers>>

(* /setgroup from chat *)
setgroup(chat) ==
    /\ UpdateIdle
    /\ settings' = [settings EXCEPT !.group_chat_id = chat]
    /\ \E oks \in Outcomes(1) :
           /\ settings_file' = write_json(settings_file,
                                           json_dump_settings(settings'), oks[1])
           /\ nfaults' = nfaults + Failures(oks)
    /\ ev' = Ev("setgroup", "update", chat, chat, NoPoll, NoUser, <<>>, <<>>)
    /\ UNCHANGED <<votes, votes_file, env_chat, inflight, last_poll,
                   opened, answered, nanswers>>

(* create_poll with no destination: logged and skipped (only the weekly job
   calls it without chat_id) *)
create_poll_skip ==
    /\ inflight.job = NoPoll
    /\ target_chat(NoChat) = NoChat
    /\ ev' = Ev("poll_skipped", "job", NoChat, NoChat, NoPoll, NoUser, <<>>, <<>>)
    /\ UNCHANGED <<settings, votes, settings_file, votes_file, env_chat, inflight,
                   last_poll, opened, answered, nanswers, nfaults>>

(* create_poll up to `await context.bot.send_poll`: the transport creates the
   poll and the coroutine is suspended until the reply arrives.
   task is "job" (weekly_poll, chat_id None) or "update" (/force_poll from
   chat_id) *)
create_poll_send(task, chat_id) ==
    /\ task = "update" => UpdateIdle
    /\ inflight[task] = NoPoll
    /\ target_chat(chat_id) # NoChat
    /\ Used < MaxEvents
    /\ last_poll' = last_poll + 1
    /\ inflight' = [inflight EXCEPT ![task] = last_poll + 1]
    /\ ev' = Ev("poll_sent", task, chat_id, target_chat(chat_id), last_poll + 1,
                NoUser, <<>>, <<>>)
    /\ UNCHANGED <<settings, votes, settings_file, votes_file, env_chat,
                   opened, answered, nanswers, nfaults>>

(* create_poll that catches the exception of send_poll and records that
   there is no latest poll *)
create_poll_fail_reset(task, chat_id) ==
    /\ task = "update" => UpdateIdle
    /\ inflight[task] = NoPoll
    /\ target_chat(chat_id) # NoChat
    /\ settings' = [settings EXCEPT !.latest_poll_id = NoPoll]
    /\ \E oks \in Outcomes(1) :
           /\ settings_file' = write_json(settings_file,
                                           json_dump_settings(settings'), oks[1])
           /\ nfaults' = nfaults + Failures(oks)
    /\ ev' = Ev("poll_failed", task, NoChat, NoChat, NoPoll, NoUser, <<>>, <<>>)
    /\ UNCHANGED <<votes, votes_file, env_chat, inflight, last_poll,
                   opened, answered, nanswers>>

(* create_poll whose `await context.bot.send_poll` raises: the exception
   leaves create_poll (and force_poll) at line 115, lines 122-125 are not
   reached and nothing is sent.  The transport holds no new poll (a poll
   the transport created without the program learning its id is the state
   create_poll_send followed by restart reaches). *)
create_poll_fail(task, chat_id) ==
    /\ task = "update" => UpdateIdle
    /\ inflight[task] = NoPoll
    /\ target_chat(chat_id) # NoChat
    /\ ev' = Ev("poll_failed", task, NoChat, NoChat, NoPoll, NoUser, <<>>, <<>>)
    /\ UNCHANGED <<settings, votes, settings_file, votes_file, env_chat, inflight,
                   last_poll, opened, answered, nanswers, nfaults>>

(* create_poll after the await, with votes.json written before the ballot
   is added (lines 124 and 125 exchanged) *)
create_poll_resume_write_first(task) ==
    LET pid == inflight[task] IN
    /\ pid # NoPoll
    /\ settings' = [settings EXCEPT !.latest_poll_id = pid]
    /\ votes' = setdefault(votes, pid)
    /\ \E oks \in Outcomes(2) :
           /\ settings_file' = write_json(settings_file,
                                           json_dump_settings(settings'), oks[1])
           /\ votes_file' = write_json(votes_file, json_dump_votes(votes), oks[2])
           /\ nfaults' = nfaults + Failures(oks)
    /\ inflight' = [inflight EXCEPT ![task] = NoPoll]
    /\ opened' = opened \cup {pid}
    /\ ev' = Ev("poll_created", task, NoChat, NoChat, pid, NoUser, <<>>, <<>>)
    /\ UNCHANGED <<env_chat, last_poll, answered, nanswers>>

(* create_poll after the await: lines 122-125 *)
create_poll_resume(task) ==
    LET pid == inflight[task] IN
    /\ pid # NoPoll
    /\ settings' = [settings EXCEPT !.latest_poll_id = pid]
    /\ votes' = setdefault(votes, pid)
    /\ \E oks \in Outcomes(2) :
           /\ settings_file' = write_json(settings_file,
                                           json_dump_settings(settings'), oks[1])
           /\ votes_file' = write_json(votes_file, json_dump_votes(votes'), oks[2])
           /\ nfaults' = nfaults + Failures(oks)
    /\ inflight' = [inflight EXCEPT ![task] = NoPoll]
    /\ opened' = opened \cup {pid}
    /\ ev' = Ev("poll_created", task, NoChat, NoChat, pid, NoUser, <<>>, <<>>)
    /\ UNCHANGED <<env_chat, last_poll, answered, nanswers>>

(* votes.setdefault(pid, {}).setdefault(name, []).extend(option_ids) *)
record_answer_merge(v, pid, name, option_ids) ==
    LET w == setdefault(v, pid)
        old == IF name \in DOMAIN w[pid] THEN w[pid][name] ELSE <<>>
    IN  dict_set(w, pid, dict_set(w[pid], name, old \o option_ids))

(* an answer for a poll id the ledger does not hold is dropped *)
record_answer_known(v, pid, name, option_ids) ==
    IF pid \in DOMAIN v THEN dict_set(v, pid, dict_set(v[pid], name, option_ids))
    ELSE v

(* a retracted vote (no option) removes the voter from the ballot *)
record_answer_retract(v, pid, name, option_ids) ==
    LET w == setdefault(v, pid) IN
    IF option_ids = <<>>
    THEN dict_set(w, pid, [n \in DOMAIN w[pid] \ {name} |-> w[pid][n]])
    ELSE dict_set(w, pid, dict_set(w[pid], name, option_ids))

(* the answer stored with option numbers counted from 1 *)
record_answer_one_based(v, pid, name, option_ids) ==
    LET w == setdefault(v, pid)
    IN  dict_set(w, pid, dict_set(w[pid], name,
                                  [k \in 1..Len(option_ids) |-> option_ids[k] + 1]))

(* votes.setdefault(pid, {})[name] = option_ids[:] : the dict afterwards *)
record_answer(v, pid, name, option_ids) ==
    LET w == setdefault(v, pid)
    IN  dict_set(w, pid, dict_set(w[pid], name, option_ids))

(* an answer event for a poll the transport holds *)
on_poll_answer(pid, user, option_ids) ==
    /\ UpdateIdle
    /\ Used < MaxEvents
    /\ pid \in 1..last_poll
    /\ votes' = record_answer(votes, pid, display_name(user), option_ids)
    /\ \E oks \in Outcomes(1) :
           /\ votes_file' = write_json(votes_file, json_dump_votes(votes'), oks[1])
           /\ nfaults' = nfaults + Failures(oks)
    /\ answered' = answered \cup {pid}
    /\ nanswers' = nanswers + 1
    /\ ev' = [Ev("answer", "update", NoChat, NoChat, pid, user.id, option_ids, <<>>)
                 EXCEPT !.prev = IF /\ ev.type = "answer"
                                    /\ ev.pid = pid
                                    /\ ev.user # user.id
                                    /\ \E u \in Users :
                                           /\ u.id = ev.user
                                           /\ display_name(u) = display_name(user)
                                 THEN ev.user ELSE NoUser]
    /\ UNCHANGED <<settings, settings_file, env_chat, inflight, last_poll, opened>>

(* post_summary with no destination: logged and skipped (only the weekly
   job calls it without chat_id) *)
post_summary_skip ==
    /\ target_chat(NoChat) = NoChat
    /\ ev' = Ev("summary_skipped", "job", NoChat, NoChat, NoPoll, NoUser, <<>>, <<>>)
    /\ UNCHANGED <<settings, votes, settings_file, votes_file, env_chat, inflight,
                   last_poll, opened, answered, nanswers, nfaults>>

(* post_summary summarising the first poll of the ledger *)
post_summary_first(task, chat_id) ==
    LET target == target_chat(chat_id)
        pid == IF DOMAIN votes = {} THEN NoPoll
               ELSE CHOOSE p \in DOMAIN votes : \A q \in DOMAIN votes : p <= q
    IN
    /\ task = "update" => UpdateIdle
    /\ target # NoChat
    /\ IF pid = NoPoll
       THEN ev' = Ev("no_data", task, chat_id, target, NoPoll, NoUser, <<>>, NO_DATA)
       ELSE ev' = Ev("summary", task, chat_id, target, pid, NoUser, <<>>,
                     build_summary_text(votes, pid))
    /\ UNCHANGED <<settings, votes, settings_file, votes_file, env_chat, inflight,
                   last_poll, opened, answered, nanswers, nfaults>>

(* post_summary reading the ballot with votes.setdefault(pid, {}) *)
post_summary_setdefault(task, chat_id) ==
    LET target == target_chat(chat_id)
        pid == settings.latest_poll_id
    IN
    /\ task = "update" => UpdateIdle
    /\ target # NoChat
    /\ IF pid = NoPoll
       THEN /\ ev' = Ev("no_data", task, chat_id, target, NoPoll, NoUser, <<>>, NO_DATA)
            /\ votes' = votes
       ELSE /\ ev' = Ev("summary", task, chat_id, target, pid, NoUser, <<>>,
                        build_summary_text(votes, pid))
            /\ votes' = setdefault(votes, pid)
    /\ UNCHANGED <<settings, settings_file, votes_file, env_chat, inflight,
                   last_poll, opened, answered, nanswers, nfaults>>

(* post_summary that also reports "no data" when the latest ballot is empty
   (`if not pid or not votes.get(pid)`) *)
post_summary_empty_ballot(task, chat_id) ==
    LET target == target_chat(chat_id)
        pid == settings.latest_poll_id
    IN
    /\ task = "update" => UpdateIdle
    /\ target # NoChat
    /\ IF pid = NoPoll \/ dict_get(votes, pid) = EmptyDict
       THEN ev' = Ev("no_data", task, chat_id, target, NoPoll, NoUser, <<>>, NO_DATA)
       ELSE ev' = Ev("summary", task, chat_id, target, pid, NoUser, <<>>,
                     build_summary_text(votes, pid))
    /\ UNCHANGED <<settings, votes, settings_file, votes_file, env_chat, inflight,
                   last_poll, opened, answered, nanswers, nfaults>>

(* post_summary with a destination.  task is "job" (weekly_summary, chat_id
   None) or "update" (/force_summary from chat_id) *)
post_summary(task, chat_id) ==
    LET target == target_chat(chat_id)
        pid == settings.latest_poll_id
    IN
    /\ task = "update" => UpdateIdle
    /\ target # NoChat
    /\ IF pid = NoPoll
       THEN ev' = Ev("no_data", task, chat_id, target, NoPoll, NoUser, <<>>, NO_DATA)
       ELSE ev' = Ev("summary", task, chat_id, target, pid, NoUser, <<>>,
                     build_summary_text(votes, pid))
    /\ UNCHANGED <<settings, votes, settings_file, votes_file, env_chat, inflight,
                   last_poll, opened, answered, nanswers, nfaults>>

(* The process stops and is started again: the module state is loaded from
   the two files, the suspended coroutines are gone.  A read that fails
   yields the default. *)
restart ==
    /\ \E oks \in Outcomes(2) :
           /\ settings' = json_load_settings(read_json(settings_file, EmptyDoc, oks[1]))
           /\ votes' = json_load_votes(read_json(votes_file, EmptyDoc, oks[2]))
           /\ nfaults' = nfaults + Failures(oks)
    /\ inflight' = NoneInflight
    /\ ev' = Ev("restart", "none", NoChat, NoChat, NoPoll, NoUser, <<>>, <<>>)
    /\ UNCHANGED <<settings_file, votes_file, env_chat, last_poll,
                   opened, answered, nanswers>>

Next ==
    \/ \E chat \in Chats : setgroup(chat)
    \/ create_poll_skip
    \/ create_poll_send("job", NoChat)
    \/ \E chat \in Chats : create_poll_send("update", chat)
    \/ create_poll_fail("job", NoChat)
    \/ \E chat \in Chats : create_poll_fail("update", chat)
    \/ \E task \in {"job", "update"} : create_poll_resume(task)
    \/ \E pid \in PollIds, user \in Users, option_ids \in OptionLists :
           on_poll_answer(pid, user, option_ids)
    \/ post_summary_skip
    \/ post_summary("job", NoChat)
    \/ \E chat \in Chats : post_summary("update", chat)
    \/ restart

Spec == Init /\ [][Next]_vars

----------------------------------------------------------------------------
(* Helpers of the properties *)

UserById(id) == CHOOSE u \in Users : u.id = id

(* how many times x occurs in the list xs *)
Count(xs, x) == Cardinality({k \in 1..Len(xs) : xs[k] = x})

AllNames == {display_name(u) : u \in Users}

(* a ledger holding only the entry of pid, when it has one *)
OnlyPoll(v, pid) == [q \in DOMAIN v \cap {pid} |-> v[q]]

EmptyView == [going |-> <<>>, not_going |-> <<>>, fifty |-> <<>>]

(* the list of a view for option index i *)
ViewList(view, i) == CASE i = 0 -> view.going [] i = 1 -> view.not_going [] i = 2 -> view.fifty

StrictlySorted(xs) == \A i, j \in 1..Len(xs) : i < j => str_less(xs[i], xs[j])

----------------------------------------------------------------------------
(* C1: last write wins per voter.  After an answer event, the ballot of its
   poll holds for the voter's display name exactly the option indices of
   that event, whatever the voter answered before, and the summary of the
   poll lists the voter once in each category of that answer and in no
   other category. *)
C1_LastWriteWins ==
    ev.type = "answer" =>
        LET name == display_name(UserById(ev.user))
            view == summarize(votes, ev.pid)
        IN  /\ ev.pid \in DOMAIN votes
            /\ name \in DOMAIN votes[ev.pid]
            /\ votes[ev.pid][name] = ev.opts
            /\ \A i \in 0..2 :
                   Count(ViewList(view, i), name) = (IF contains(ev.opts, i) THEN 1 ELSE 0)

(* the second of two answers, both given to the same poll under the same
   display name, nothing having been lost in between *)
C1_Witness ==
    /\ ev.type = "answer"
    /\ nanswers = 2
    /\ nfaults = 0
    /\ answered = {ev.pid}
    /\ Cardinality(DOMAIN votes[ev.pid]) = 1
    /\ ev.opts = <<1>>

(* C2: whenever settings.latest_poll_id is set, it is a key of votes, in
   every reachable state, the state loaded from the two files at a start of
   the process included. *)
C2_LatestPollInLedger ==
    settings.latest_poll_id # NoPoll => settings.latest_poll_id \in DOMAIN votes

(* C3: a summary that is sent is the rendering of the ballot of
   latest_poll_id alone: the other entries of the ledger do not contribute
   to it, and an answer stored under another poll id leaves the text a
   summary would send unchanged. *)
C3_SummaryOfLatest ==
    /\ [](ev.type = "summary" =>
            /\ ev.chat # NoChat
            /\ ev.pid = settings.latest_poll_id
            /\ ev.text = build_summary_text(OnlyPoll(votes, settings.latest_poll_id),
                                            settings.latest_poll_id))
    /\ [][(ev'.type = "answer" /\ ev'.pid # settings.latest_poll_id) =>
            /\ settings'.latest_poll_id = settings.latest_poll_id
            /\ ev'.pid \in DOMAIN votes'
            /\ build_summary_text(votes', settings.latest_poll_id)
                   = build_summary_text(votes, settings.latest_poll_id)]_vars

(* the summary of poll 2 while poll 1 holds a vote that poll 2 does not hold *)
C3_Witness ==
    /\ ev.type = "summary"
    /\ ev.pid = 2
    /\ 1 \in DOMAIN votes
    /\ 2 \in DOMAIN votes
    /\ \E n \in DOMAIN votes[1] : n \notin DOMAIN votes[2] /\ votes[1][n] # <<>>

(* C4: for every poll id, present in the ledger or not, a name is in the
   list of a category iff the ballot stores for it a list containing the
   category's index; every list is strictly increasing in the order of
   Python's str, hence sorted and free of duplicates. *)
C4_SummarizeCategories ==
    \A pid \in 1..(MaxEvents + 1) :
        LET data == IF pid \in DOMAIN votes THEN votes[pid] ELSE EmptyDict
            view == summarize(votes, pid)
        IN  \A i \in 0..2 :
                /\ \A name \in AllNames :
                       (Count(ViewList(view, i), name) > 0)
                           <=> (name \in DOMAIN data /\ contains(data[name], i))
                /\ \A k \in 1..Len(ViewList(view, i)) : ViewList(view, i)[k] \in AllNames
                /\ StrictlySorted(ViewList(view, i))

(* a poll with two voters in one category, one of them in two categories *)
C4_Witness ==
    \E pid \in DOMAIN votes :
        /\ Len(summarize(votes, pid).going) = 2
        /\ Len(summarize(votes, pid).fifty) = 1
        /\ summarize(votes, pid).not_going = <<>>

(* C5: the poll-creation step leaves the ballot of a poll id the ledger
   already holds as it is, creates an empty ballot for one it does not
   hold, and leaves every other entry alone. *)
C5_OpenKeepsVotes ==
    [][ev'.type = "poll_created" =>
          /\ ev'.pid \in DOMAIN votes'
          /\ DOMAIN votes' = DOMAIN votes \cup {ev'.pid}
          /\ \A q \in DOMAIN votes : votes'[q] = votes[q]
          /\ ev'.pid \notin DOMAIN votes => votes'[ev'.pid] = EmptyDict]_vars

(* create_poll resumed for a poll that was answered while it was suspended *)
C5_Witness ==
    /\ ev.type = "poll_created"
    /\ ev.pid \in DOMAIN votes
    /\ votes[ev.pid] # EmptyDict

(* C6: an answer event for a poll id the ledger does not hold is stored:
   the entry is created with the voter's answer as its only content, the
   summary of that poll id then lists the voter in the categories of the
   answer, and the ballots of the other poll ids are unchanged. *)
C6_ImplicitEntry ==
    [][(ev'.type = "answer" /\ ev'.pid \notin DOMAIN votes) =>
          LET name == display_name(UserById(ev'.user)) IN
          /\ DOMAIN votes' = DOMAIN votes \cup {ev'.pid}
          /\ DOMAIN votes'[ev'.pid] = {name}
          /\ votes'[ev'.pid][name] = ev'.opts
          /\ \A i \in 0..2 :
                 ViewList(summarize(votes', ev'.pid), i)
                     = (IF contains(ev'.opts, i) THEN <<name>> ELSE <<>>)
          /\ \A q \in DOMAIN votes : votes'[q] = votes[q]]_vars

(* the first answer event ever, for a poll create_poll has not opened, as
   in scenario D *)
C6_Witness ==
    /\ ev.type = "answer"
    /\ nanswers = 1
    /\ ev.pid \notin opened
    /\ ev.opts = <<0>>
    /\ summarize(votes, ev.pid).going = <<display_name(UserById(ev.user))>>

(* C7: the summary of a poll id that was given neither to the poll-creation
   step nor to an answer event is the three empty lists, whatever else the
   ledger holds. *)
C7_UnknownPollEmpty ==
    \A pid \in 1..(MaxEvents + 1) :
        pid \notin (opened \cup answered) => summarize(votes, pid) = EmptyView

(* a poll the transport holds, not opened and not answered, while another
   poll has a voter *)
C7_Witness ==
    /\ \E pid \in 1..last_poll : pid \notin (opened \cup answered)
    /\ \E q \in DOMAIN votes : votes[q] # EmptyDict

(* C8: under the bind, poll-creation, answer and summary events (every step
   but a restart of the process) a key of the ledger stays a key, and a
   voter name of a ballot stays in that ballot. *)
C8_NeverDeleted ==
    [][ev'.type # "restart" =>
          \A pid \in DOMAIN votes :
              /\ pid \in DOMAIN votes'
              /\ \A name \in DOMAIN votes[pid] : name \in DOMAIN votes'[pid]]_vars

(* a voter who answered and then retracted the vote is still in the ballot *)
C8_Witness ==
    /\ ev.type = "answer"
    /\ ev.opts = <<>>
    /\ nanswers = 2
    /\ nfaults = 0
    /\ answered = {ev.pid}
    /\ Cardinality(DOMAIN votes[ev.pid]) = 1

(* C9: a summary event changes neither settings nor the ledger nor the two
   files, and creates no entry for a poll id the ledger does not hold; two
   summaries in a row send the same text. *)
C9_SummaryReadOnly ==
    /\ [][ev'.type \in {"summary", "no_data", "summary_skipped"} =>
            UNCHANGED <<settings, votes, settings_file, votes_file>>]_vars
    /\ [][(ev.type = "summary" /\ ev'.type = "summary") =>
            (ev'.pid = ev.pid /\ ev'.text = ev.text)]_vars

(* a summary of a latest_poll_id the ledger does not hold: no entry appears *)
C9_Witness ==
    /\ ev.type = "summary"
    /\ ev.pid \notin DOMAIN votes

(* C10: with no chat bound and no GROUP_CHAT_ID, the weekly poll job and the
   weekly summary job are skipped: nothing is sent, no poll is created, and
   settings, the ledger and the files are unchanged. *)
C10_NoDestinationSkips ==
    [][(/\ settings.group_chat_id = NoChat
        /\ env_chat = NoChat
        /\ ev'.task = "job"
        /\ ev'.type # "poll_created") =>
          /\ ev'.type \in {"poll_skipped", "summary_skipped"}
          /\ ev'.text = <<>>
          /\ ev'.pid = NoPoll
          /\ UNCHANGED <<settings, votes, settings_file, votes_file, last_poll,
                         inflight>>]_vars

(* the weekly summary skipped although a forced poll had set latest_poll_id *)
C10_Witness ==
    /\ ev.type = "summary_skipped"
    /\ settings.group_chat_id = NoChat
    /\ env_chat = NoChat
    /\ settings.latest_poll_id # NoPoll

(* the event types of a summary event that had a destination *)
SummarySent == {"summary", "no_data"}

(* C11: a summary event with a destination sends the "no data yet" message,
   and no tally, when latest_poll_id is unset at that moment; it sends the
   tally of latest_poll_id, and not the "no data yet" message, when
   latest_poll_id is set. *)
C11_NoDataIffUnset ==
    [][ev'.type \in SummarySent =>
         IF settings.latest_poll_id = NoPoll
         THEN /\ ev'.type = "no_data"
              /\ ev'.text = NO_DATA
         ELSE /\ ev'.type = "summary"
              /\ ev'.pid = settings.latest_poll_id
              /\ ev'.text # NO_DATA
              /\ SubSeq(ev'.text, 1, Len(HEADER)) = HEADER]_vars

(* "no data yet" sent while the transport already holds a poll whose
   create_poll has not resumed, so that latest_poll_id is still unset *)
C11_Witness ==
    /\ ev.type = "no_data"
    /\ ev.text = NO_DATA
    /\ settings.latest_poll_id = NoPoll
    /\ last_poll >= 1

(* C12: a failed write is not fatal and loses nothing in memory.  Whatever
   the outcome of its writes, setgroup, create_poll and on_poll_answer
   complete with the new value in the in-memory settings / ledger; each
   file they write holds afterwards either the new in-memory record (write
   succeeded) or exactly its previous content (write failed), and the other
   file is untouched; a later summary reads the in-memory records. *)
C12_FailedWriteKeepsMemory ==
    [][/\ ev'.type = "setgroup" =>
            /\ settings'.group_chat_id = ev'.chat
            /\ settings_file' \in {settings_file, json_dump_settings(settings')}
            /\ votes_file' = votes_file
       /\ ev'.type = "poll_created" =>
            /\ settings'.latest_poll_id = ev'.pid
            /\ ev'.pid \in DOMAIN votes'
            /\ settings_file' \in {settings_file, json_dump_settings(settings')}
            /\ votes_file' \in {votes_file, json_dump_votes(votes')}
       /\ ev'.type = "answer" =>
            /\ ev'.pid \in DOMAIN votes'
            /\ display_name(UserById(ev'.user)) \in DOMAIN votes'[ev'.pid]
            /\ votes'[ev'.pid][display_name(UserById(ev'.user))] = ev'.opts
            /\ votes_file' \in {votes_file, json_dump_votes(votes')}
            /\ settings_file' = settings_file
       /\ ev'.type = "summary" =>
            /\ ev'.pid = settings.latest_poll_id
            /\ ev'.text = build_summary_text(votes, settings.latest_poll_id)]_vars

(* an answer whose write of votes.json failed: the ledger holds the answer,
   the file still holds the ledger as create_poll wrote it *)
C12_Witness ==
    /\ ev.type = "answer"
    /\ votes_file # json_dump_votes(votes)
    /\ votes_file # EmptyDoc
    /\ votes[ev.pid][display_name(UserById(ev.user))] = ev.opts
    /\ ev.opts # <<>>

(* the pieces of text between the occurrences of the code point c *)
RECURSIVE SplitAt(_, _)
SplitAt(text, c) ==
    IF \A k \in 1..Len(text) : text[k] # c THEN <<text>>
    ELSE LET k == CHOOSE i \in 1..Len(text) :
                      text[i] = c /\ \A j \in 1..(i - 1) : text[j] # c
         IN  <<SubSeq(text, 1, k - 1)>> \o SplitAt(SubSeq(text, k + 1, Len(text)), c)

(* the number a string of decimal digits denotes *)
RECURSIVE DecVal(_)
DecVal(ds) ==
    IF ds = <<>> THEN 0
    ELSE 10 * DecVal(SubSeq(ds, 1, Len(ds) - 1)) + (ds[Len(ds)] - 48)

(* the label of the category of option index i *)
CategoryLabel(i) ==
    CASE i = 0 -> GOING_LABEL [] i = 1 -> NOT_GOING_LABEL [] i = 2 -> FIFTY_LABEL

(* line is: label, the decimal count of names, "): ", then the names joined
   by ", " in sorted order, or the placeholder exactly when there is none *)
LineRenders(line, label, names) ==
    LET n    == Len(label)
        rest == SubSeq(line, n + 1, Len(line))
        cnt  == SplitAt(rest, 41)[1]
        body == SubSeq(rest, Len(cnt) + Len(COUNT_END) + 1, Len(rest))
    IN  /\ Len(line) >= n + 1 + Len(COUNT_END)
        /\ SubSeq(line, 1, n) = label
        /\ cnt # <<>>
        /\ \A k \in 1..Len(cnt) : cnt[k] \in 48..57
        /\ DecVal(cnt) = Len(names)
        /\ SubSeq(rest, Len(cnt) + 1, Len(cnt) + Len(COUNT_END)) = COUNT_END
        /\ (body = NOBODY) <=> (names = <<>>)
        /\ (DecVal(cnt) = 0) <=> (body = NOBODY)
        /\ names # <<>> =>
             /\ StrictlySorted(names)
             /\ body = join(COMMA, names)
             /\ Len(SplitAt(body, 44)) = Len(names)

(* C13 (amended): the text of a summary is a header line followed by three
   lines, for playing, notPlaying and fiftyFifty in this order; each line
   carries the
   label of its category, a count equal to the number of names of the
   category, and these names in sorted order joined by ", ", or the "nobody"
   placeholder exactly when the category is empty (count 0). *)
C13_SummaryLines ==
    ev.type = "summary" =>
        LET lines == SplitAt(ev.text, 10)
            view  == summarize(votes, ev.pid)
        IN  /\ Len(lines) = 4
            /\ lines[1] = HEADER
            /\ \A i \in 0..2 :
                   LineRenders(lines[i + 2], CategoryLabel(i), ViewList(view, i))

(* a summary with two names in one category and an empty category *)
C13_Witness ==
    /\ ev.type = "summary"
    /\ Len(summarize(votes, ev.pid).going) = 2
    /\ summarize(votes, ev.pid).not_going = <<>>
    /\ ev.text = build_summary_text(votes, ev.pid)

(* C13 as stated: the text of a summary is three lines, one per category in
   the order playing, notPlaying, fiftyFifty, each with label, count and
   names or placeholder. *)
C13_ThreeLines ==
    ev.type = "summary" =>
        LET lines == SplitAt(ev.text, 10)
            view  == summarize(votes, ev.pid)
        IN  /\ Len(lines) = 3
            /\ \A i \in 0..2 :
                   LineRenders(lines[i + 1], CategoryLabel(i), ViewList(view, i))

(* every option index of every list of the ledger v is 0, 1 or 2 *)
IndicesInRange(v) ==
    \A pid \in DOMAIN v : \A name \in DOMAIN v[pid] :
        \A k \in 1..Len(v[pid][name]) : v[pid][name][k] \in {0, 1, 2}

(* C14: in every reachable state every element of every option list stored
   in the vote ledger (in memory and in votes.json) is 0, 1 or 2, for every
   poll id and voter, the answer events carrying indices of the three
   options of the bot's polls. *)
C14_OptionIndicesInRange ==
    /\ IndicesInRange(votes)
    /\ IndicesInRange(json_load_votes(votes_file))

(* a stored multi-option answer with the smallest and the largest index *)
C14_Witness ==
    /\ ev.type = "answer"
    /\ ev.opts = <<0, 2>>
    /\ votes[ev.pid][display_name(UserById(ev.user))] = <<0, 2>>
    /\ nanswers = 2

(* the event types of an event that sent something to a destination *)
Sent == {"poll_sent", "summary", "no_data"}

(* C15: a scheduled poll or summary goes to the chat bound in settings when
   one is bound, and to the GROUP_CHAT_ID of the environment only when none
   is bound; a forced poll or summary goes to the chat the command came
   from; no poll or summary event, forced or scheduled, changes the bound
   group_chat_id. *)
C15_Destination ==
    [][/\ (ev'.type \in Sent /\ ev'.task = "job") =>
            /\ ev'.src = NoChat
            /\ ev'.chat # NoChat
            /\ settings.group_chat_id # NoChat => ev'.chat = settings.group_chat_id
            /\ settings.group_chat_id = NoChat => ev'.chat = env_chat
       /\ (ev'.type \in Sent /\ ev'.task = "update") =>
            /\ ev'.src \in Chats
            /\ ev'.chat = ev'.src
       /\ ev'.type \in Sent \cup {"poll_created", "poll_skipped", "summary_skipped"} =>
            settings'.group_chat_id = settings.group_chat_id]_vars

(* a forced summary sent to the chat of the command although another chat
   is bound *)
C15_Witness ==
    /\ ev.type = "summary"
    /\ ev.task = "update"
    /\ settings.group_chat_id # NoChat
    /\ ev.src # settings.group_chat_id
    /\ ev.chat = ev.src

(* C16: /setgroup changes only the destination.  A bind sets group_chat_id
   to the chat of the command and leaves latest_poll_id, the whole vote
   ledger and votes.json unchanged; binding the chat that is already bound
   leaves settings as they are, so that binding twice yields the state of
   binding once. *)
C16_BindOnlyDestination ==
    [][ev'.type = "setgroup" =>
         /\ settings'.group_chat_id = ev'.chat
         /\ settings'.latest_poll_id = settings.latest_poll_id
         /\ DOMAIN settings' = DOMAIN settings
         /\ votes' = votes
         /\ votes_file' = votes_file
         /\ inflight' = inflight
         /\ settings.group_chat_id = ev'.chat => settings' = settings
         /\ settings_file' \in {settings_file, json_dump_settings(settings')}]_vars

(* a bind after a poll was created and answered *)
C16_Witness ==
    /\ ev.type = "setgroup"
    /\ settings.group_chat_id = ev.chat
    /\ settings.latest_poll_id # NoPoll
    /\ \E pid \in DOMAIN votes : votes[pid] # EmptyDict

(* C17: latest_poll_id identifies the poll created last.  When a poll
   creation completes and no other creation is in flight,
   settings.latest_poll_id is the id of the poll the transport created
   last, in whatever order the continuations of two creations resumed
   (stated for behaviours in which no file operation failed). *)
C17_LatestIsLastCreated ==
    (ev.type = "poll_created" /\ inflight = NoneInflight /\ nfaults = 0) =>
        settings.latest_poll_id = last_poll

(* the ballot key the accounts are expected to get: the full name, followed
   by " (@" username ")" when the account has a username *)
BallotKey(id) ==
    LET u == UserById(id) IN
    IF u.username = <<>> THEN u.full_name
    ELSE u.full_name \o <<32, 40, 64>> \o u.username \o <<41>>

(* C18: the ballot key is the derived display name, not the account.  An
   answer event writes the entry of its account's derived name and no
   other: the ballot gains at most that one key, the entry holds the
   event's answer (replacing what any account of the same derived name
   answered before), and the entries of all other derived names, among them
   the same full name with a username, are kept as they were. *)
C18_BallotKeyIsDisplayName ==
    [][ev'.type = "answer" =>
         LET key == BallotKey(ev'.user)
             old == dict_get(votes, ev'.pid)
             new == dict_get(votes', ev'.pid)
         IN  /\ DOMAIN new = DOMAIN old \cup {key}
             /\ new[key] = ev'.opts
             /\ \A n \in DOMAIN old \ {key} : new[n] = old[n]
             /\ \A id \in {u.id : u \in Users} :
                    (BallotKey(id) # key /\ BallotKey(id) \in DOMAIN old) =>
                        new[BallotKey(id)] = old[BallotKey(id)]]_vars

(* accounts 1 and 2, of equal derived names, answered the same poll: one
   entry, holding the answer of account 2 that came last *)
C18_Witness ==
    /\ ev.type = "answer"
    /\ ev.user = 2
    /\ ev.prev = 1
    /\ BallotKey(1) = BallotKey(2)
    /\ BallotKey(3) # BallotKey(2)
    /\ DOMAIN votes[ev.pid] = {BallotKey(2)}
    /\ votes[ev.pid][BallotKey(2)] = ev.opts
    /\ ev.opts # <<>>

(* C19: the files track the dicts.  As long as no file operation has
   failed, settings.json and votes.json hold, between any two steps of the
   handlers, documents that load to exactly the in-memory settings and
   ledger (every handler that changes a dict writes it before it finishes),
   and a restart, which reloads both files, restores exactly the settings
   and the ledger of before. *)
C19_FilesTrackMemory ==
    /\ [](nfaults = 0 =>
            /\ json_load_settings(settings_file) = settings
            /\ json_load_votes(votes_file) = votes)
    /\ [][(ev'.type = "restart" /\ nfaults' = 0) =>
            /\ settings' = settings
            /\ votes' = votes
            /\ UNCHANGED <<settings_file, votes_file>>]_vars

(* a restart, with no failure so far, of a process that has a bound chat, a
   latest poll and a recorded answer *)
C19_Witness ==
    /\ ev.type = "restart"
    /\ nfaults = 0
    /\ settings.group_chat_id # NoChat
    /\ settings.latest_poll_id # NoPoll
    /\ \E pid \in DOMAIN votes : \E name \in DOMAIN votes[pid] :
           votes[pid][name] # <<>>

(* C20: a poll-creation event whose send_poll raises changes no state:
   latest_poll_id keeps its value, the ledger gets no entry, neither file
   is written, and no creation is left in flight. *)
C20_FailedSendChangesNothing ==
    [][ev'.type = "poll_failed" =>
         /\ settings' = settings
         /\ votes' = votes
         /\ settings_file' = settings_file
         /\ votes_file' = votes_file
         /\ inflight' = inflight
         /\ opened' = opened
         /\ nfaults' = nfaults
         /\ ev'.text = <<>>]_vars

(* a failed creation after an earlier poll was created and answered *)
C20_Witness ==
    /\ ev.type = "poll_failed"
    /\ settings.latest_poll_id # NoPoll
    /\ settings.latest_poll_id \in DOMAIN votes
    /\ votes[settings.latest_poll_id] # EmptyDict
    /\ settings_file = json_dump_settings(settings)

====
